---------------------------- MODULE Spec2Model ----------------------------
(* Model of stock_dashboard.py: the two rolling-window calculators          *)
(* (calculate_moving_averages, calculate_bollinger_bands), the memoized     *)
(* load_data, and the top-level script that Streamlit re-runs on every      *)
(* widget interaction.                                                      *)
(*                                                                          *)
(* Numbers are exact: a cell of a column is NaN or a real of the form       *)
(* a + b*sqrt(r) with a, r rational (reduced pairs <<num, den>>) and b an   *)
(* integer.  Positions are 1-based here; position i of the source (0-based) *)
(* is position i+1 of a column.                                             *)
EXTENDS Integers, Sequences, FiniteSets, TLC

(***************************************************************************)
(* Bounds of the model                                                     *)
(***************************************************************************)
MaxLen == 3        \* longest closing-price series given to the calculators
MaxPrice == 2      \* closing prices are 1..MaxPrice
MaxWin == 4        \* window sizes are 1..MaxWin
MaxRows == 1       \* longest series the provider returns in the script
MaxDownloads == 2  \* cap on the per-key download counter

Multipliers == {-1, 0, 2}       \* values of num_std_dev tried
Scenarios == {<<10, 11, 12, 13, 14>>, <<5, 5, 5, 5>>}   \* series tried beyond the bounds
Prices == 1..MaxPrice
Windows == 1..MaxWin

(***************************************************************************)
(* Exact arithmetic                                                        *)
(***************************************************************************)
Abs(x) == IF x < 0 THEN -x ELSE x

Sgn(x) == IF x > 0 THEN 1 ELSE IF x < 0 THEN -1 ELSE 0

RECURSIVE GCD(_, _)
GCD(a, b) == IF b = 0 THEN a ELSE GCD(b, a % b)

\* the reduced fraction n/d, d > 0
Rat(n, d) == LET g == GCD(Abs(n), d) IN <<n \div g, d \div g>>

RAdd(p, q) == Rat(p[1] * q[2] + q[1] * p[2], p[2] * q[2])

RSub(p, q) == Rat(p[1] * q[2] - q[1] * p[2], p[2] * q[2])

RMul(p, q) == Rat(p[1] * q[1], p[2] * q[2])

RZero == <<0, 1>>

\* a float cell: NaN, or the real a + b*sqrt(r)
NaN == [nan |-> TRUE, a |-> RZero, b |-> 0, r |-> RZero]

Real(a, b, r) ==
    IF b = 0 \/ r[1] = 0
    THEN [nan |-> FALSE, a |-> a, b |-> 0, r |-> RZero]
    ELSE [nan |-> FALSE, a |-> a, b |-> b, r |-> r]

Num(q) == Real(q, 0, RZero)

IsDefined(x) == ~x.nan

\* x + y and x - y; the operands carry at most one radicand between them
Radicand(x, y) == IF x.b # 0 THEN x.r ELSE y.r

Add(x, y) ==
    IF x.nan \/ y.nan THEN NaN
    ELSE Real(RAdd(x.a, y.a), x.b + y.b, Radicand(x, y))

Sub(x, y) ==
    IF x.nan \/ y.nan THEN NaN
    ELSE Real(RSub(x.a, y.a), x.b - y.b, Radicand(x, y))

\* x * k for an integer k
Scale(x, k) ==
    IF x.nan THEN NaN
    ELSE Real(Rat(x.a[1] * k, x.a[2]), x.b * k, x.r)

\* the square root of a rational v >= 0
Sqrt(v) == Real(RZero, 1, v)

\* the sign of a + b*sqrt(r)
Sign(x) ==
    LET sa == Sgn(x.a[1])
        sb == Sgn(x.b) * Sgn(x.r[1])
        a2 == RMul(x.a, x.a)
        b2r == RMul(<<x.b * x.b, 1>>, x.r)
        d == Sgn(RSub(a2, b2r)[1])
    IN  IF sb = 0 THEN sa
        ELSE IF sa = 0 \/ sa = sb THEN sb
        ELSE IF d > 0 THEN sa
        ELSE IF d < 0 THEN sb
        ELSE 0

\* x >= y and x == y as pandas compares floats: NaN compares false
Geq(x, y) == IsDefined(x) /\ IsDefined(y) /\ Sign(Sub(x, y)) >= 0

Eq(x, y) == IsDefined(x) /\ IsDefined(y) /\ Sign(Sub(x, y)) = 0

(***************************************************************************)
(* Data frames and rolling windows                                         *)
(***************************************************************************)
RECURSIVE SumA(_)
SumA(s) == IF s = <<>> THEN RZero ELSE RAdd(Head(s).a, SumA(Tail(s)))

RECURSIVE SumSqDev(_, _)
SumSqDev(s, m) ==
    IF s = <<>> THEN RZero
    ELSE LET dv == RSub(Head(s).a, m)
         IN  RAdd(RMul(dv, dv), SumSqDev(Tail(s), m))

Max(a, b) == IF a >= b THEN a ELSE b

\* the observations of the trailing window that ends at position i
WindowObs(col, i, w) ==
    SelectSeq(SubSeq(col, Max(1, i - w + 1), i), IsDefined)

\* rolling(window=w, min_periods=1).mean(): partial windows give a value
rolling_mean_min_periods_1(col, w) ==
    [i \in 1..Len(col) |->
        LET obs == WindowObs(col, i, w)
            nobs == Len(obs)
        IN  IF nobs < 1 THEN NaN
            ELSE Num(RMul(SumA(obs), <<1, nobs>>))]

\* rolling(window=w).sum() / (w + 1): the mean over the wrong count
rolling_mean_wrong_count(col, w) ==
    [i \in 1..Len(col) |->
        LET obs == WindowObs(col, i, w)
            nobs == Len(obs)
        IN  IF nobs < w THEN NaN
            ELSE Num(RMul(SumA(obs), <<1, nobs + 1>>))]

\* rolling(window=w, closed='left').mean(): the window ends before position i
rolling_mean_closed_left(col, w) ==
    [i \in 1..Len(col) |->
        LET obs == WindowObs(col, i - 1, w)
            nobs == Len(obs)
        IN  IF nobs < w THEN NaN
            ELSE Num(RMul(SumA(obs), <<1, nobs>>))]

\* Series.rolling(window=w).mean(); min_periods defaults to w
rolling_mean(col, w) ==
    [i \in 1..Len(col) |->
        LET obs == WindowObs(col, i, w)
            nobs == Len(obs)
        IN  IF nobs < w THEN NaN
            ELSE Num(RMul(SumA(obs), <<1, nobs>>))]

\* delta degrees of freedom of Series.rolling(...).std()
ddof == 1

\* rolling(window=w).std(ddof=0): the population standard deviation
rolling_std_population(col, w) ==
    [i \in 1..Len(col) |->
        LET obs == WindowObs(col, i, w)
            nobs == Len(obs)
        IN  IF nobs < w \/ nobs <= 0 THEN NaN
            ELSE LET m == RMul(SumA(obs), <<1, nobs>>)
                 IN  Sqrt(RMul(SumSqDev(obs, m), <<1, nobs>>))]

\* Series.rolling(window=w).std(): the sample standard deviation
rolling_std(col, w) ==
    [i \in 1..Len(col) |->
        LET obs == WindowObs(col, i, w)
            nobs == Len(obs)
        IN  IF nobs < w \/ nobs <= ddof THEN NaN
            ELSE LET m == RMul(SumA(obs), <<1, nobs>>)
                 IN  Sqrt(RMul(SumSqDev(obs, m), <<1, nobs - ddof>>))]

\* data[c] = v
SetCol(data, c, v) ==
    [index |-> data.index,
     cols |-> [x \in DOMAIN data.cols \cup {c} |->
                  IF x = c THEN v ELSE data.cols[x]]]

\* f'SMA_{w}'
SMAName(w) == "SMA_" \o ToString(w)

\* the short average written over the Close column
calculate_moving_averages_over_close(data, short_window, long_window) ==
    LET d1 == SetCol(data, "Close",
                     rolling_mean(data.cols["Close"], short_window))
    IN  SetCol(d1, SMAName(long_window),
               rolling_mean(d1.cols["Close"], long_window))

calculate_moving_averages(data, short_window, long_window) ==
    LET d1 == SetCol(data, SMAName(short_window),
                     rolling_mean(data.cols["Close"], short_window))
    IN  SetCol(d1, SMAName(long_window),
               rolling_mean(d1.cols["Close"], long_window))

\* the two bands exchanged
calculate_bollinger_bands_swapped(data, window, num_std_dev) ==
    LET rm == rolling_mean(data.cols["Close"], window)
        rs == rolling_std(data.cols["Close"], window)
        d1 == SetCol(data, "Bollinger_High",
                     [i \in 1..Len(rm) |-> Sub(rm[i], Scale(rs[i], num_std_dev))])
    IN  SetCol(d1, "Bollinger_Low",
               [i \in 1..Len(rm) |-> Add(rm[i], Scale(rs[i], num_std_dev))])

calculate_bollinger_bands(data, window, num_std_dev) ==
    LET rm == rolling_mean(data.cols["Close"], window)
        rs == rolling_std(data.cols["Close"], window)
        d1 == SetCol(data, "Bollinger_High",
                     [i \in 1..Len(rm) |-> Add(rm[i], Scale(rs[i], num_std_dev))])
    IN  SetCol(d1, "Bollinger_Low",
               [i \in 1..Len(rm) |-> Sub(rm[i], Scale(rs[i], num_std_dev))])

(***************************************************************************)
(* The calculators on arbitrary inputs                                     *)
(***************************************************************************)
VARIABLES
    heap,       \* object id -> data frame
    arg,        \* the object the caller passes as `data`
    ret,        \* the object the last call returned (0: no call yet)
    before,     \* the value of the argument when the last call began
    last,       \* the calculator last called ("none", "ma", "bb")
    params      \* the arguments of the calls

cvars == <<heap, arg, ret, before, last, params>>

VARIABLES
    pc,             \* position of the script: "idle", "load", "branch", "done", "crashed"
    ticker_symbol,  \* sidebar inputs of the current run
    start_date,
    end_date,
    cache,          \* st.cache_data's store of load_data: key -> cached result
    downloads,      \* key -> number of yf.download calls made for it
    first,          \* key -> what the first load_data call for it returned
    hit,            \* the current run's load_data call was served from the cache
    loaded,         \* what load_data returned to the current run
    data,           \* the script's variable `data`
    invoked,        \* calculators called in the current run
    ui              \* elements the current run has put on the page

svars == <<pc, ticker_symbol, start_date, end_date, cache, downloads, first,
           hit, loaded, data, invoked, ui>>

vars == <<cvars, svars>>

RECURSIVE SeqsUpTo(_, _)
SeqsUpTo(S, n) ==
    IF n = 0 THEN {<<>>}
    ELSE LET shorter == SeqsUpTo(S, n - 1)
         IN  shorter \cup {Append(s, x) : s \in {t \in shorter : Len(t) = n - 1}, x \in S}

\* a frame as the script holds it: a RangeIndex and a Close column
FrameOf(closes) ==
    [index |-> [i \in 1..Len(closes) |-> i - 1],
     cols |-> [c \in {"Close"} |-> [i \in 1..Len(closes) |-> Num(<<closes[i], 1>>)]]]

CalcInit ==
    /\ \E closes \in SeqsUpTo(Prices, MaxLen) \cup Scenarios : heap = [o \in {1} |-> FrameOf(closes)]
    /\ arg = 1
    /\ ret = 0
    /\ before = heap[1]
    /\ last = "none"
    /\ params \in [short_window : Windows, long_window : Windows,
                   window : Windows, num_std_dev : Multipliers]

\* data = calculate_moving_averages(data, short_window, long_window)
CallMA ==
    /\ before' = heap[arg]
    /\ heap' = [heap EXCEPT ![arg] =
                   calculate_moving_averages(heap[arg], params.short_window,
                                             params.long_window)]
    /\ ret' = arg
    /\ last' = "ma"
    /\ UNCHANGED <<arg, params, svars>>

\* data = calculate_bollinger_bands(data, window, num_std_dev)
CallBB ==
    /\ before' = heap[arg]
    /\ heap' = [heap EXCEPT ![arg] =
                   calculate_bollinger_bands(heap[arg], params.window,
                                             params.num_std_dev)]
    /\ ret' = arg
    /\ last' = "bb"
    /\ UNCHANGED <<arg, params, svars>>

CalcNext == CallMA \/ CallBB

(***************************************************************************)
(* Properties of the calculators                                           *)
(***************************************************************************)
Frame == heap[arg]

Close == Frame.cols["Close"]

HasCol(c) == c \in DOMAIN Frame.cols

HasSMA == HasCol(SMAName(params.short_window)) /\ HasCol(SMAName(params.long_window))

HasBands == HasCol("Bollinger_High") /\ HasCol("Bollinger_Low")

SMAWindows == {params.short_window, params.long_window}

DefinedAt(col) == {i \in 1..Len(col) : IsDefined(col[i])}

\* the closing price at position i as the integer it was given as
ClosePrice(i) == Close[i].a[1]

RECURSIVE SumPrices(_, _)
SumPrices(lo, hi) == IF lo > hi THEN 0 ELSE ClosePrice(hi) + SumPrices(lo, hi - 1)

ConstantOver(lo, hi) == \A i, j \in lo..hi : ClosePrice(i) = ClosePrice(j)

\* C1: each SMA column has as many cells as the series, its defined cells are
\* exactly the positions w-1 .. n-1 (here w .. n), max(0, n - w + 1) of them;
\* the whole column is undefined when w > n and empty when n = 0.
C1_SMADefinedTail ==
    HasSMA =>
        \A w \in SMAWindows :
            LET col == Frame.cols[SMAName(w)]
                n == Len(Close)
            IN  /\ Len(col) = n
                /\ DefinedAt(col) = {i \in 1..n : i >= w}
                /\ Cardinality(DefinedAt(col)) = Max(0, n - w + 1)

C1_Witness ==
    /\ last = "ma"
    /\ Len(Close) = 3
    /\ params.short_window = 2
    /\ params.long_window = 4
    /\ DefinedAt(Frame.cols[SMAName(2)]) = {2, 3}
    /\ DefinedAt(Frame.cols[SMAName(4)]) = {}

\* C2: at every position i >= w-1 the SMA is the arithmetic mean of the
\* closing prices at positions i-w+1 .. i, so it uses no later position.
C2_SMATrailingMean ==
    HasSMA =>
        \A w \in SMAWindows :
            \A i \in w..Len(Close) :
                LET v == Frame.cols[SMAName(w)][i]
                IN  /\ IsDefined(v)
                    /\ v.b = 0
                    /\ v.a[1] * w = v.a[2] * SumPrices(i - w + 1, i)

C2_Witness ==
    /\ last = "ma"
    /\ params.short_window = 3
    /\ Len(Close) = 5
    /\ \A i \in 1..5 : ClosePrice(i) = 9 + i
    /\ Frame.cols[SMAName(3)] =
           <<NaN, NaN, Num(<<11, 1>>), Num(<<12, 1>>), Num(<<13, 1>>)>>

\* C3 as claimed: both bands are undefined at positions i < w-1 and defined
\* at every position i >= w-1, for every window w >= 1.
C3_BandsDefinedTail ==
    HasBands =>
        \A i \in 1..Len(Close) :
            /\ IsDefined(Frame.cols["Bollinger_High"][i]) <=> i >= params.window
            /\ IsDefined(Frame.cols["Bollinger_Low"][i]) <=> i >= params.window

\* C3 amended: for w >= 2 both bands are defined exactly at the positions
\* i >= w-1; for w = 1 both bands are undefined at every position.
C3_BandsDefinedTailFromTwo ==
    HasBands =>
        \A i \in 1..Len(Close) :
            /\ IsDefined(Frame.cols["Bollinger_High"][i])
                   <=> (i >= params.window /\ params.window >= 2)
            /\ IsDefined(Frame.cols["Bollinger_Low"][i])
                   <=> (i >= params.window /\ params.window >= 2)

C3_Witness ==
    /\ last = "bb"
    /\ params.window = 2
    /\ Len(Close) = 3
    /\ DefinedAt(Frame.cols["Bollinger_High"]) = {2, 3}
    /\ DefinedAt(Frame.cols["Bollinger_Low"]) = {2, 3}

BandsOrdered ==
    \A i \in DefinedAt(Frame.cols["Bollinger_High"]) :
        LET hi == Frame.cols["Bollinger_High"][i]
            lo == Frame.cols["Bollinger_Low"][i]
        IN  /\ Geq(hi, lo)
            /\ Eq(hi, lo) <=> ConstantOver(i - params.window + 1, i)

\* C4 as claimed: for every multiplier k the call accepts, wherever the bands
\* are defined upper >= lower, with equality iff the price is constant over
\* the window.
C4_UpperGeqLower == HasBands => BandsOrdered

\* C4 amended: the same for every multiplier k > 0.
C4_UpperGeqLowerPositiveK == (HasBands /\ params.num_std_dev > 0) => BandsOrdered

C4_Witness ==
    /\ last = "bb"
    /\ params.window = 2
    /\ params.num_std_dev = 2
    /\ Len(Close) = 4
    /\ \A i \in 1..4 : ClosePrice(i) = 5
    /\ Frame.cols["Bollinger_High"] = <<NaN, Num(<<5, 1>>), Num(<<5, 1>>), Num(<<5, 1>>)>>
    /\ Frame.cols["Bollinger_Low"] = Frame.cols["Bollinger_High"]

\* C7: a calculator run again on the result of an earlier run of it returns
\* that result unchanged, in every column.
C7_Idempotent ==
    /\ (last = "ma" /\ {SMAName(w) : w \in SMAWindows} \subseteq DOMAIN before.cols)
           => Frame = before
    /\ (last = "bb" /\ {"Bollinger_High", "Bollinger_Low"} \subseteq DOMAIN before.cols)
           => Frame = before

C7_Witness ==
    /\ last = "ma"
    /\ {SMAName(w) : w \in SMAWindows} \subseteq DOMAIN before.cols
    /\ "Bollinger_High" \in DOMAIN before.cols
    /\ params.short_window = 2
    /\ Len(Close) = 3

\* C8: with a window of 1 the SMA column equals the Close column at every
\* position.
C8_WindowOneIsClose ==
    (HasSMA /\ 1 \in SMAWindows) => Frame.cols[SMAName(1)] = Close

C8_Witness ==
    /\ last = "ma"
    /\ params.short_window = 1
    /\ Len(Close) = 3
    /\ ClosePrice(1) # ClosePrice(2)
    /\ Frame.cols[SMAName(1)] = Close

\* C9 as claimed: a call leaves the object passed as input as it was and
\* returns an object other than its input.
C9_Pure == ret # 0 => (heap[arg] = before /\ ret # arg)

(***************************************************************************)
(* The script: sidebar inputs, memoized load_data, analysis or warning     *)
(***************************************************************************)
TickerInputs == {"AAPL", "aapl", "MSFT"}
StartDates == {1}
EndDates == {2, 3}
FetchPrices == {1, 2}

\* str.upper() on the tickers typed
upper(t) == CASE t = "aapl" -> "AAPL" [] t = "AAPL" -> "AAPL" [] t = "MSFT" -> "MSFT"

Keys == {<<upper(t), s, e>> : t \in TickerInputs, s \in StartDates, e \in EndDates}

None == [none |-> TRUE]

\* what yf.download can do: raise, or return a frame indexed by date (possibly empty)
ProviderFrame(start, closes) ==
    [index |-> [i \in 1..Len(closes) |-> start + i - 1],
     cols |-> [c \in {"Close"} |-> [i \in 1..Len(closes) |-> Num(<<closes[i], 1>>)]]]

ProviderOutcomes(start) ==
    {[raises |-> TRUE, frame |-> None]}
        \cup {[raises |-> FALSE, frame |-> ProviderFrame(start, closes)] :
                 closes \in SeqsUpTo(FetchPrices, MaxRows)}

\* DataFrame.empty
empty(df) == Len(df.index) = 0

\* DataFrame.reset_index(): the index becomes the column Date
reset_index(df) ==
    [index |-> [i \in 1..Len(df.index) |-> i - 1],
     cols |-> [x \in DOMAIN df.cols \cup {"Date"} |->
                  IF x = "Date" THEN df.index ELSE df.cols[x]]]

\* load_data without the try/except: a provider error propagates
load_data_no_except(outcome) ==
    IF outcome.raises
    THEN [raised |-> TRUE, value |-> None, elements |-> {}]
    ELSE IF empty(outcome.frame)
    THEN [raised |-> FALSE, value |-> None, elements |-> {}]
    ELSE [raised |-> FALSE, value |-> reset_index(outcome.frame), elements |-> {}]

\* the body of load_data, given what yf.download does
load_data(outcome) ==
    IF outcome.raises
    THEN [raised |-> FALSE, value |-> None, elements |-> {"error"}]
    ELSE IF empty(outcome.frame)
    THEN [raised |-> FALSE, value |-> None, elements |-> {}]
    ELSE [raised |-> FALSE, value |-> reset_index(outcome.frame), elements |-> {}]

\* a memoizer that does not keep None results
cache_store_skip_none(c, key, result) ==
    IF result.value = None THEN c
    ELSE [k \in DOMAIN c \cup {key} |-> IF k = key THEN result ELSE c[k]]

\* st.cache_data stores whatever the function returned, None included
cache_store(c, key, result) ==
    [k \in DOMAIN c \cup {key} |-> IF k = key THEN result ELSE c[k]]

\* pd.to_datetime on a column that already holds dates
to_datetime(col) == [i \in 1..Len(col) |-> col[i]]

DefaultShortWindow == 20
DefaultLongWindow == 50
DefaultWindow == 20
DefaultNumStdDev == 2

Key == <<ticker_symbol, start_date, end_date>>

CalcIdle ==
    /\ heap = [o \in {1} |-> FrameOf(<<>>)]
    /\ arg = 1
    /\ ret = 0
    /\ before = heap[1]
    /\ last = "none"
    /\ params = [short_window |-> DefaultShortWindow, long_window |-> DefaultLongWindow,
                 window |-> DefaultWindow, num_std_dev |-> DefaultNumStdDev]

ScriptInit ==
    /\ pc = "idle"
    /\ ticker_symbol = "AAPL"
    /\ start_date \in StartDates
    /\ end_date = CHOOSE e \in EndDates : \A f \in EndDates : e >= f
    /\ cache = <<>>
    /\ downloads = [k \in Keys |-> 0]
    /\ first = <<>>
    /\ hit = FALSE
    /\ loaded = None
    /\ data = None
    /\ invoked = {}
    /\ ui = {}

\* a widget interaction: the script runs again from the top (lines 8-31)
Rerun(t, s, e) ==
    /\ pc \in {"idle", "done"}
    /\ pc' = "load"
    /\ ticker_symbol' = upper(t)
    /\ start_date' = s
    /\ end_date' = e
    /\ hit' = FALSE
    /\ loaded' = None
    /\ data' = None
    /\ invoked' = {}
    /\ ui' = {}
    /\ UNCHANGED <<cache, downloads, first, cvars>>

\* data = load_data(...) served from the cache: the stored value and the
\* elements the function showed are replayed
LoadDataHit ==
    /\ pc = "load"
    /\ Key \in DOMAIN cache
    /\ hit' = TRUE
    /\ loaded' = cache[Key].value
    /\ data' = cache[Key].value
    /\ ui' = ui \cup cache[Key].elements
    /\ pc' = "branch"
    /\ UNCHANGED <<ticker_symbol, start_date, end_date, cache, downloads, first,
                   invoked, cvars>>

\* data = load_data(...) not in the cache: the function runs and downloads
LoadDataMiss ==
    /\ pc = "load"
    /\ Key \notin DOMAIN cache
    /\ downloads[Key] < MaxDownloads
    /\ \E outcome \in ProviderOutcomes(start_date) :
          LET result == load_data(outcome)
          IN  /\ downloads' = [downloads EXCEPT ![Key] = @ + 1]
              /\ IF result.raised
                 THEN /\ pc' = "crashed"
                      /\ UNCHANGED <<cache, first, loaded, data, ui>>
                 ELSE /\ pc' = "branch"
                      /\ cache' = cache_store(cache, Key, result)
                      /\ first' = IF Key \in DOMAIN first THEN first
                                  ELSE [k \in DOMAIN first \cup {Key} |->
                                           IF k = Key THEN [outcome |-> outcome,
                                                            value |-> result.value]
                                           ELSE first[k]]
                      /\ loaded' = result.value
                      /\ data' = result.value
                      /\ ui' = ui \cup result.elements
    /\ hit' = FALSE
    /\ UNCHANGED <<ticker_symbol, start_date, end_date, invoked, cvars>>

Charts == {"header", "chart_price", "chart_bb"}

\* lines 68-111 with the else taken as well as the if
BranchMissingElse ==
    /\ pc = "branch"
    /\ pc' = "done"
    /\ IF data # None
       THEN /\ data' = calculate_bollinger_bands(
                           calculate_moving_averages(
                               SetCol(data, "Date", to_datetime(data.cols["Date"])),
                               DefaultShortWindow, DefaultLongWindow),
                           DefaultWindow, DefaultNumStdDev)
            /\ invoked' = {"calculate_moving_averages", "calculate_bollinger_bands"}
            /\ \E show \in BOOLEAN :
                  ui' = ui \cup Charts \cup {"warning"} \cup (IF show THEN {"table"} ELSE {})
       ELSE /\ ui' = ui \cup {"warning"}
            /\ UNCHANGED <<data, invoked>>
    /\ UNCHANGED <<ticker_symbol, start_date, end_date, cache, downloads, first,
                   hit, loaded, cvars>>

\* lines 68-111: analysis and charts if data is not None, else the warning
Branch ==
    /\ pc = "branch"
    /\ pc' = "done"
    /\ IF data # None
       THEN /\ data' = calculate_bollinger_bands(
                           calculate_moving_averages(
                               SetCol(data, "Date", to_datetime(data.cols["Date"])),
                               DefaultShortWindow, DefaultLongWindow),
                           DefaultWindow, DefaultNumStdDev)
            /\ invoked' = {"calculate_moving_averages", "calculate_bollinger_bands"}
            /\ \E show \in BOOLEAN :
                  ui' = ui \cup Charts \cup (IF show THEN {"table"} ELSE {})
       ELSE /\ ui' = ui \cup {"warning"}
            /\ UNCHANGED <<data, invoked>>
    /\ UNCHANGED <<ticker_symbol, start_date, end_date, cache, downloads, first,
                   hit, loaded, cvars>>

Init == ScriptInit /\ CalcIdle

Next ==
    \/ \E t \in TickerInputs, s \in StartDates, e \in EndDates : Rerun(t, s, e)
    \/ LoadDataHit
    \/ LoadDataMiss
    \/ Branch

Spec == Init /\ [][Next]_vars

\* the calculators called on arbitrary series and arguments, the script at rest
CalcStart == CalcInit /\ ScriptInit

CalcSpec == CalcStart /\ [][CalcNext]_vars

(***************************************************************************)
(* Properties of the script                                                *)
(***************************************************************************)
\* C5: load_data never raises; it returns None when the provider raised or
\* returned an empty result, and a frame only when the provider returned a
\* non-empty result.
C5_LoadDataNeverRaises ==
    /\ pc # "crashed"
    /\ pc = "branch" =>
          /\ Key \in DOMAIN first
          /\ LET outcome == first[Key].outcome
             IN  /\ (outcome.raises \/ empty(outcome.frame)) => loaded = None
                 /\ loaded # None => (~outcome.raises /\ ~empty(outcome.frame))

C5_Witness ==
    /\ pc = "branch"
    /\ ~hit
    /\ first[Key].outcome.raises
    /\ loaded = None
    /\ "error" \in ui

\* C6: the calculators are invoked only if load_data returned a non-empty
\* series; on None neither is invoked, no chart is rendered and the warning
\* is shown; a finished run took exactly one of the two branches.
C6_AnalysisOrWarning ==
    /\ invoked # {} => (loaded # None /\ ~empty(loaded))
    /\ pc = "done" =>
          IF loaded = None
          THEN invoked = {} /\ ui \cap Charts = {} /\ "warning" \in ui
          ELSE /\ invoked = {"calculate_moving_averages", "calculate_bollinger_bands"}
               /\ Charts \subseteq ui
               /\ "warning" \notin ui

C6_Witness ==
    /\ pc = "done"
    /\ loaded = None
    /\ invoked = {}
    /\ "warning" \in ui
    /\ cache # <<>>
    /\ \E k \in DOMAIN cache : cache[k].value # None

\* C10: the provider is contacted at most once per key (ticker, start, end);
\* a later call with a key seen before returns what the first call returned
\* without a download, also when that was None.
C10_AtMostOneDownloadPerKey ==
    /\ \A k \in Keys : downloads[k] <= 1 /\ (downloads[k] = 1 <=> k \in DOMAIN cache)
    /\ (pc = "branch" /\ hit) => loaded = first[Key].value

C10_Witness ==
    /\ pc = "branch"
    /\ hit
    /\ downloads[Key] = 1
    /\ first[Key].outcome.raises
    /\ loaded = None

=============================================================================
